---- MODULE Spec2Model ----
(***************************************************************************)
(* Server actions of the invoicing dashboard (app/lib/actions.ts):         *)
(* authenticate, createInvoice, updateInvoice and deleteInvoice, run as    *)
(* concurrent invocations against one invoices table, the view cache of    *)
(* /dashboard/invoices and the sign-in delegate.                           *)
(*                                                                         *)
(* JavaScript values.  A value read from the form is null or a string.     *)
(* Strings whose characters the code inspects (the amount, the ISO time    *)
(* stamp) are sequences of one-character strings; strings that are only    *)
(* compared or stored are TLA+ strings.  A number is an IEEE-754 double,   *)
(* parsed and multiplied with the rounding the language prescribes.        *)
(***************************************************************************)
EXTENDS Integers, Sequences, FiniteSets, TLC

VARIABLES invoices, nextId, clock, revalidated, calls, proc

vars == <<invoices, nextId, clock, revalidated, calls, proc>>

(***************************************************************************)
(* Bounds of the model.                                                    *)
(***************************************************************************)
\* Invocations started in one behaviour.
MaxCalls == 2
\* Invocations started in one behaviour of the one-at-a-time specification.
FormCalls == 1
\* Invocation slots: two requests may be in flight at once.
Procs == {"r1", "r2"}

(***************************************************************************)
(* JavaScript values                                                       *)
(***************************************************************************)
Null == [t |-> "null"]
Str(s) == [t |-> "string", v |-> s]

(***************************************************************************)
(* Natural numbers of any size: a sequence of limbs in base Base, least    *)
(* significant first, without high zero limbs; <<>> is 0.  They are        *)
(* multiplied and divided by divisors of Base only (2, 10, 16, 100, ...),  *)
(* for which carries and remainders do not travel beyond the next limb.    *)
(***************************************************************************)
Base == 10000

\* The least of a set of integers, 0 for the empty set.
Least(S) == IF S = {} THEN 0 ELSE CHOOSE i \in S : \A j \in S : i <= j

\* The index of the highest limb of a that is not zero, 0 if there is none.
TopLimb(a) ==
  IF \A i \in 1..Len(a) : a[i] = 0 THEN 0
  ELSE CHOOSE i \in 1..Len(a) : a[i] # 0 /\ \A j \in (i + 1)..Len(a) : a[j] = 0

\* a without its high zero limbs.
Strip(a) == SubSeq(a, 1, TopLimb(a))

\* A natural number (below 2^31, so of three limbs at most).
FromNat(c) == Strip(<<c % Base, (c \div Base) % Base, c \div (Base * Base)>>)

\* The natural number of the at most three limbs v, below 2^31.
NatOf(v) ==
  (IF Len(v) >= 1 THEN v[1] ELSE 0) + (IF Len(v) >= 2 THEN v[2] * Base ELSE 0)
    + (IF Len(v) >= 3 THEN v[3] * Base * Base ELSE 0)

\* q without its highest limb if that is zero.
StripTop(q) ==
  IF q = <<>> THEN q
  ELSE IF q[Len(q)] = 0 THEN SubSeq(q, 1, Len(q) - 1) ELSE q

\* a divided by a divisor k < Base of Base, rounded down: a quotient within
\* one limb of a.
BDiv(a, k) ==
  StripTop([i \in 1..Len(a) |->
              ((IF i < Len(a) THEN a[i + 1] % k ELSE 0) * Base + a[i]) \div k])

\* The remainder of a by a divisor k of Base.
BMod(a, k) == IF a = <<>> THEN 0 ELSE a[1] % k

\* p + c, for c below a divisor of Base that divides p.
BAddSmall(p, c) ==
  IF c = 0 THEN p ELSE IF p = <<>> THEN <<c>> ELSE [p EXCEPT ![1] = @ + c]

\* a * k + c, for a divisor k of Base and c < k.
BMulAdd(a, k, c) ==
  BAddSmall(IF k = 1 THEN a ELSE BDiv(<<0>> \o a, Base \div k), c)

\* a + 1, where first is the lowest limb of a that is not Base - 1 (0 if
\* there is none).
BIncAt(a, first) ==
  IF first = 0 THEN [i \in 1..Len(a) |-> 0] \o <<1>>
  ELSE [i \in 1..Len(a) |->
          IF i < first THEN 0 ELSE IF i = first THEN a[i] + 1 ELSE a[i]]

\* a + 1
BInc(a) == BIncAt(a, Least({i \in 1..Len(a) : a[i] # Base - 1}))

BIsOdd(a) == BMod(a, 2) = 1

\* a < b
BLess(a, b) ==
  IF Len(a) # Len(b) THEN Len(a) < Len(b)
  ELSE \E i \in 1..Len(a) :
         a[i] < b[i] /\ \A j \in (i + 1)..Len(a) : a[j] = b[j]

RECURSIVE BTimesPow(_, _, _)
\* a * k^n, for a divisor k of Base.
BTimesPow(a, k, n) ==
  IF n = 0 \/ a = <<>> THEN a
  ELSE IF n = 1 THEN BMulAdd(a, k, 0)
  ELSE BTimesPow(BTimesPow(a, k, n \div 2), k, n - n \div 2)

BPow2(n) == BTimesPow(<<1>>, 2, n)

SmallPow10 == <<1, 10, 100, 1000>>

\* a * 10^n
BTimesPow10(a, n) ==
  IF a = <<>> THEN a
  ELSE BMulAdd([i \in 1..(n \div 4) |-> 0] \o a, SmallPow10[(n % 4) + 1], 0)

\* a divided by 10^n: the quotient and whether the division left a remainder.
BDivPow10(a, n) ==
  IF n \div 4 >= Len(a) THEN [q |-> <<>>, inexact |-> a # <<>>]
  ELSE [q |-> BDiv(SubSeq(a, (n \div 4) + 1, Len(a)), SmallPow10[(n % 4) + 1]),
        inexact |-> \/ a[(n \div 4) + 1] % SmallPow10[(n % 4) + 1] # 0
                    \/ \E i \in 1..(n \div 4) : a[i] # 0]

\* The number of decimal digits of a (0 for 0).
BDecimalDigits(a) ==
  IF a = <<>> THEN 0
  ELSE LET top == a[Len(a)]
       IN 4 * (Len(a) - 1)
            + (IF top >= 1000 THEN 4 ELSE IF top >= 100 THEN 3
               ELSE IF top >= 10 THEN 2 ELSE 1)

(***************************************************************************)
(* Numbers: IEEE-754 doubles.  A finite number is (-1)^neg * m * 2^e with   *)
(* m odd below 2^53 and e >= -1074, or m = 0 (then e = 0); the others are   *)
(* the infinities and NaN.                                                 *)
(***************************************************************************)
NaN == [k |-> "nan", neg |-> FALSE, m |-> <<>>, e |-> 0]
Infinity(neg) == [k |-> "inf", neg |-> neg, m |-> <<>>, e |-> 0]
Zero(neg) == [k |-> "num", neg |-> neg, m |-> <<>>, e |-> 0]

\* 2^53 = 9007199254740992
Two53 == <<992, 5474, 1992, 9007>>

\* Whether n * 2^b fits a double's 53 bits at an exponent of -1074 or more.
Fits(h) == BLess(h.n, Two53) /\ h.b >= -1074

\* One bit dropped from n * 2^b: it becomes the guard bit, and the sticky
\* bit records whether any bit dropped before it was set.
HalveStep(h) ==
  [n |-> BDiv(h.n, 2), b |-> h.b + 1, guard |-> BIsOdd(h.n),
   sticky |-> h.sticky \/ h.guard]

RECURSIVE Halve(_, _)
\* Up to t bits dropped from h, stopping once it fits.
Halve(h, t) ==
  IF t = 0 \/ Fits(h) THEN h
  ELSE IF t = 1 THEN HalveStep(h)
  ELSE Halve(Halve(h, t \div 2), t - t \div 2)

\* n * 2^b for even n > 0 with four factors 2 taken out of n, or one.
OddStep(h) ==
  IF h.n[1] % 16 = 0 THEN [n |-> BDiv(h.n, 16), b |-> h.b + 4]
  ELSE [n |-> BDiv(h.n, 2), b |-> h.b + 1]

RECURSIVE OddPart(_, _)
\* n * 2^b for n > 0 with n made odd, by up to t steps.
OddPart(h, t) ==
  IF t = 0 \/ BIsOdd(h.n) THEN h
  ELSE IF t = 1 THEN OddStep(h)
  ELSE OddPart(OddPart(h, t \div 2), t - t \div 2)

\* The finite number (-1)^neg * o.n * 2^o.b, o.n odd.
Finite(neg, o) == [k |-> "num", neg |-> neg, m |-> o.n, e |-> o.b]

\* The finite number (-1)^neg * n * 2^b, for n of at most 2^53, in its one form.
Normal(neg, n, b) ==
  IF n = <<>> THEN Zero(neg) ELSE Finite(neg, OddPart([n |-> n, b |-> b], 53))

\* The double (-1)^neg * r * 2^b, r of at most 2^53: infinite from 2^1024.
Ranged(neg, r, b) ==
  IF r = <<>> THEN Zero(neg)
  ELSE IF b >= 1024 THEN Infinity(neg)
  ELSE IF b > 960 /\ ~BLess(r, BPow2(1024 - b)) THEN Infinity(neg)
  ELSE Normal(neg, r, b)

\* h, which fits, rounded to nearest, ties to even.
RoundHalved(neg, h) ==
  Ranged(neg,
         IF h.guard /\ (h.sticky \/ BIsOdd(h.n)) THEN BInc(h.n) ELSE h.n,
         h.b)

\* The double nearest to (-1)^neg * (n + tail) * 2^b, ties to even, where
\* inexact says that the tail, in [0, 1), is not 0.
Round(neg, n, b, inexact) ==
  RoundHalved(neg,
              Halve([n |-> n, b |-> b, guard |-> FALSE, sticky |-> inexact],
                    14 * Len(n) + (IF b < -1074 THEN -1074 - b ELSE 0)))

\* The double nearest to (-1)^neg * q.q * 2^b, q a quotient of BDivPow10.
RoundQuotient(neg, q, b) == Round(neg, q.q, b, q.inexact)

\* A multiple s of 4 such that v * 2^s has 55 bits or more for v >= 10^j.
ScaleBits(j) ==
  IF j >= 18 THEN 0
  ELSE IF j >= 0 THEN 4 * ((57 - 3 * j) \div 4)
  ELSE 4 * ((57 - 4 * j) \div 4)

\* The double nearest to (-1)^neg * d / 10^n: the quotient of d * 2^s by
\* 10^n, rounded.
FromFraction(neg, d, n, s) ==
  RoundQuotient(neg, BDivPow10(BTimesPow(d, 16, s \div 4), n), 0 - s)

\* The double nearest to (-1)^neg * d * 10^x.
FromDecimal(neg, d, x) ==
  IF d = <<>> THEN Zero(neg)
  ELSE IF BDecimalDigits(d) + x > 310 THEN Infinity(neg)
  ELSE IF BDecimalDigits(d) + x < -330 THEN Zero(neg)
  ELSE IF x >= 0 THEN Round(neg, BTimesPow10(d, x), 0, FALSE)
  ELSE FromFraction(neg, d, 0 - x, ScaleBits(BDecimalDigits(d) - 1 + x))

\* The double of a natural number below Base * Base.
FromInt(i) == Round(FALSE, FromNat(i), 0, FALSE)

\* x * k for a number x and a divisor k of Base, as doubles multiply.
Times(x, k) ==
  IF x.k # "num" THEN x ELSE Round(x.neg, BMulAdd(x.m, k, 0), x.e, FALSE)

IsNaN(x) == x.k = "nan"

\* x > 0
Positive(x) == (x.k = "inf" /\ ~x.neg) \/ (x.k = "num" /\ ~x.neg /\ x.m # <<>>)

\* Number.isInteger(x)
IsInteger(x) == x.k = "num" /\ x.e >= 0

(***************************************************************************)
(* Number(string): StringToNumber of ECMAScript.  A character is a         *)
(* one-character string, or the name U+XXXX of its code point when a TLA+  *)
(* string cannot hold it.                                                  *)
(***************************************************************************)
\* WhiteSpace (TAB, VT, FF, SP, NBSP, ZWNBSP and the space separators of
\* Unicode) and LineTerminator (LF, CR, LS, PS).
WhiteSpace ==
  {"\t", "U+000B", "\f", " ", "U+00A0", "U+FEFF", "U+1680", "U+2000", "U+2001",
   "U+2002", "U+2003", "U+2004", "U+2005", "U+2006", "U+2007", "U+2008",
   "U+2009", "U+200A", "U+202F", "U+205F", "U+3000",
   "\n", "\r", "U+2028", "U+2029"}

HexDigits ==
  <<"0", "1", "2", "3", "4", "5", "6", "7", "8", "9", "a", "b", "c", "d", "e", "f">>
UpperHexDigits ==
  <<"0", "1", "2", "3", "4", "5", "6", "7", "8", "9", "A", "B", "C", "D", "E", "F">>

\* Whether c is a digit in the radix.
IsDigit(c, radix) ==
  \E i \in 1..radix : HexDigits[i] = c \/ UpperHexDigits[i] = c

DigitVal(c) ==
  (CHOOSE i \in 1..16 : HexDigits[i] = c \/ UpperHexDigits[i] = c) - 1

AllDigits(s, radix) == \A i \in 1..Len(s) : IsDigit(s[i], radix)

\* The digit of s at position p, 0 before its start.
DigitAt(s, p) == IF p >= 1 THEN DigitVal(s[p]) ELSE 0

\* The value of a run of decimal digits: four digits to a limb.
DecimalVal(s) ==
  Strip([j \in 1..((Len(s) + 3) \div 4) |->
           LET p == Len(s) - 4 * (j - 1)
           IN DigitAt(s, p) + 10 * DigitAt(s, p - 1)
                + 100 * DigitAt(s, p - 2) + 1000 * DigitAt(s, p - 3)])

RECURSIVE RadixVal(_, _, _, _, _)
\* acc followed by the digits lo..hi of s in the radix.
RadixVal(s, radix, acc, lo, hi) ==
  IF lo > hi THEN acc
  ELSE IF lo = hi THEN BMulAdd(acc, radix, DigitVal(s[lo]))
  ELSE LET mid == (lo + hi) \div 2
       IN RadixVal(s, radix, RadixVal(s, radix, acc, lo, mid), mid + 1, hi)

\* The value of a run of digits in the radix.
DigitsVal(s, radix) ==
  IF radix = 10 THEN DecimalVal(s) ELSE RadixVal(s, radix, <<>>, 1, Len(s))

\* Index of the first character of s that is none of cs, or 0.
FirstOutside(s, cs) ==
  IF \A i \in 1..Len(s) : s[i] \in cs THEN 0
  ELSE CHOOSE i \in 1..Len(s) :
         s[i] \notin cs /\ \A j \in 1..(i - 1) : s[j] \in cs

\* Index of the last character of s that is none of cs, or 0.
LastOutside(s, cs) ==
  IF \A i \in 1..Len(s) : s[i] \in cs THEN 0
  ELSE CHOOSE i \in 1..Len(s) :
         s[i] \notin cs /\ \A j \in (i + 1)..Len(s) : s[j] \in cs

\* s from position first on, nothing if first is 0.
From(s, first) == IF first = 0 THEN <<>> ELSE SubSeq(s, first, Len(s))

\* s from its first character that is none of cs.
DropLeading(s, cs) == From(s, FirstOutside(s, cs))

TrimLeft(s) == DropLeading(s, WhiteSpace)

TrimRight(s) == SubSeq(s, 1, LastOutside(s, WhiteSpace))

\* Index of the first occurrence of a character of cs in s, or 0.
IndexOfAny(s, cs) ==
  IF \A i \in 1..Len(s) : s[i] \notin cs THEN 0
  ELSE CHOOSE i \in 1..Len(s) :
         s[i] \in cs /\ \A j \in 1..(i - 1) : s[j] \notin cs

\* Index of the first occurrence of c in s, or 0.
IndexOf(s, c) == IndexOfAny(s, {c})

DropZeros(s) == DropLeading(s, {"0"})

\* No exponent part: the exponent 0.
NoExponent == [ok |-> TRUE, minus |-> FALSE, mag |-> <<>>]

\* The exponent with the sign and the digits given, if it is one: its sign
\* and its magnitude, whatever the number of digits.
SignedExponent(minus, ds) ==
  IF ds = <<>> \/ ~AllDigits(ds, 10) THEN [ok |-> FALSE, minus |-> FALSE, mag |-> <<>>]
  ELSE [ok |-> TRUE, minus |-> minus, mag |-> DecimalVal(ds)]

\* The value of an exponent part (what follows e or E): an optional sign and
\* digits.
ExponentOf(s) ==
  IF s # <<>> /\ s[1] \in {"+", "-"} THEN SignedExponent(s[1] = "-", Tail(s))
  ELSE SignedExponent(FALSE, s)

\* mag > c
Exceeds(mag, c) == c < 0 \/ BLess(FromNat(c), mag)

\* The double nearest to (-1)^neg * sig * 10^(ex - nf), for the digits sig of
\* a positive integer without leading zeros: sig * 10^-nf is at least
\* 10^(Len(sig) - nf - 1) and below 10^(Len(sig) - nf), so that an exponent
\* beyond 310 - (Len(sig) - nf) gives Infinity and one below
\* -330 - (Len(sig) - nf) gives 0; any other one is of the size of the
\* literal.
ScaledToNumber(neg, sig, nf, ex) ==
  IF ex.minus
  THEN IF Exceeds(ex.mag, 330 + Len(sig) - nf) THEN Zero(neg)
       ELSE FromDecimal(neg, DecimalVal(sig), 0 - NatOf(ex.mag) - nf)
  ELSE IF Exceeds(ex.mag, 310 - (Len(sig) - nf)) THEN Infinity(neg)
       ELSE FromDecimal(neg, DecimalVal(sig), NatOf(ex.mag) - nf)

\* The double of the digits sig, the last nf of them a fraction, times
\* 10^ex: zero whatever the exponent if no digit is.
SignificantToNumber(neg, sig, nf, ex) ==
  IF sig = <<>> THEN Zero(neg) ELSE ScaledToNumber(neg, sig, nf, ex)

\* The double of the decimal literal with integer digits ip, fraction digits
\* fp and exponent ex: there must be a digit, and the exponent must be one.
DigitsToNumber(neg, ip, fp, ex) ==
  IF AllDigits(ip, 10) /\ AllDigits(fp, 10) /\ Len(ip) + Len(fp) > 0 /\ ex.ok
  THEN SignificantToNumber(neg, DropZeros(ip \o fp), Len(fp), ex)
  ELSE NaN

\* The double of the mantissa, whose point is at position dot (0: none), and
\* the exponent ex.
PointToNumber(neg, mant, dot, ex) ==
  IF dot = 0 THEN DigitsToNumber(neg, mant, <<>>, ex)
  ELSE DigitsToNumber(neg, SubSeq(mant, 1, dot - 1),
                      SubSeq(mant, dot + 1, Len(mant)), ex)

\* The double of the literal s whose exponent indicator is at position ei
\* (0: none).
ExponentToNumber(neg, s, ei) ==
  IF ei = 0 THEN PointToNumber(neg, s, IndexOf(s, "."), NoExponent)
  ELSE PointToNumber(neg, SubSeq(s, 1, ei - 1),
                     IndexOf(SubSeq(s, 1, ei - 1), "."),
                     ExponentOf(SubSeq(s, ei + 1, Len(s))))

\* StrUnsignedDecimalLiteral: Infinity, or digits with an optional point and
\* an optional exponent, at least one digit before the exponent.
UnsignedToNumber(neg, s) ==
  IF s = <<"I", "n", "f", "i", "n", "i", "t", "y">> THEN Infinity(neg)
  ELSE ExponentToNumber(neg, s, IndexOfAny(s, {"e", "E"}))

\* NonDecimalIntegerLiteral: 0x, 0o or 0b (either case) and digits of the radix.
IsNonDecimal(s) ==
  Len(s) >= 2 /\ s[1] = "0" /\ s[2] \in {"x", "X", "o", "O", "b", "B"}

\* The radix the letter of a non-decimal literal stands for.
Radix(c) == IF c \in {"x", "X"} THEN 16 ELSE IF c \in {"o", "O"} THEN 8 ELSE 2

NonDecimalToNumber(s) ==
  IF Len(s) > 2 /\ AllDigits(SubSeq(s, 3, Len(s)), Radix(s[2]))
  THEN Round(FALSE, DigitsVal(DropZeros(SubSeq(s, 3, Len(s))), Radix(s[2])), 0, FALSE)
  ELSE NaN

\* StrNumericLiteral: a non-decimal literal takes no sign, a decimal one may.
LiteralToNumber(s) ==
  IF s = <<>> THEN Zero(FALSE)
  ELSE IF IsNonDecimal(s) THEN NonDecimalToNumber(s)
  ELSE IF Head(s) = "-" THEN UnsignedToNumber(TRUE, Tail(s))
  ELSE IF Head(s) = "+" THEN UnsignedToNumber(FALSE, Tail(s))
  ELSE UnsignedToNumber(FALSE, s)

\* Number(string): white space and line terminators are trimmed, the empty
\* string is 0.
StringToNumber(chars) == LiteralToNumber(TrimRight(TrimLeft(chars)))

\* Number(value), the coercion z.coerce.number() applies: Number(null) is 0.
ToNumber(v) == IF v.t = "null" THEN Zero(FALSE) ELSE StringToNumber(v.v)

(***************************************************************************)
(* FormSchema with id and date omitted (CreateInvoice, UpdateInvoice).     *)
(* Each field parser gives the field's issues, in order; no issue means    *)
(* the field is valid.                                                     *)
(***************************************************************************)
MsgCustomer == "PLEASE SELECT A CUSTOMER."
MsgAmount == "PLEASE ENTER AN AMOUNT GREATER THAN $0."
MsgStatus == "PLEASE SELECT AN INVOICE STATUS."
MsgNaN == "Expected number, received nan"

StatusOptions == {"pending", "paid"}

\* z.string({invalid_type_error}): any string passes, the empty one included.
CustomerIdIssues(v) == IF v.t = "string" THEN <<>> ELSE <<MsgCustomer>>

\* z.number().gt(0, {message}) on a number.
NumberIssues(x) ==
  IF IsNaN(x) THEN <<MsgNaN>> ELSE IF Positive(x) THEN <<>> ELSE <<MsgAmount>>

\* Mutant: gte(0) in place of gt(0).
AmountIssuesGte(v) ==
  IF ToNumber(v) \in {Zero(FALSE), Zero(TRUE)} THEN <<>> ELSE NumberIssues(ToNumber(v))

\* z.coerce.number().gt(0, {message}): the coerced value must be a number
\* (NaN is an invalid type, and then gt is not run) and greater than 0.
AmountIssues(v) == NumberIssues(ToNumber(v))

\* Mutant: z.string() in place of z.enum([...]).
StatusIssuesAnyString(v) == IF v.t # "string" THEN <<MsgStatus>> ELSE <<>>

\* z.enum(['pending', 'paid'], {invalid_type_error}): a non-string is an
\* invalid type; a string outside the options is an invalid enum value.
StatusIssues(v) ==
  IF v.t # "string" THEN <<MsgStatus>>
  ELSE IF v.v \in StatusOptions THEN <<>>
  ELSE <<"Invalid enum value. Expected 'pending' | 'paid', received '" \o v.v \o "'">>

FieldIssues(cid, amt, st) ==
  [f \in {"customerId", "amount", "status"} |->
     CASE f = "customerId" -> CustomerIdIssues(cid)
       [] f = "amount" -> AmountIssues(amt)
       [] f = "status" -> StatusIssues(st)]

\* safeParse(...).success
ParseSuccess(cid, amt, st) ==
  \A f \in {"customerId", "amount", "status"} : FieldIssues(cid, amt, st)[f] = <<>>

\* error.flatten().fieldErrors: the fields that have issues, with their messages.
FieldErrors(cid, amt, st) ==
  LET iss == FieldIssues(cid, amt, st)
  IN [f \in {g \in {"customerId", "amount", "status"} : iss[g] # <<>>} |-> iss[f]]

\* validatedFields.data
ParsedData(cid, amt, st) ==
  [customerId |-> cid.v, amount |-> ToNumber(amt), status |-> st.v]

\* Mutant: the amount is stored as entered.
AmountNotConverted(amount) == amount

\* amount * 100, the product of two doubles.
AmountInCents(amount) == Times(amount, 100)

(***************************************************************************)
(* new Date().toISOString().split('T')[0]                                  *)
(***************************************************************************)
\* The instants (UTC) the clock passes through.
Instants ==
  << [year |-> 2026, month |-> 10, day |-> 30, hours |-> 23, minutes |-> 59,
      seconds |-> 58, ms |-> 7],
     [year |-> 2026, month |-> 10, day |-> 31, hours |-> 0, minutes |-> 0,
      seconds |-> 3, ms |-> 120] >>

RECURSIVE PadDigits(_, _)
\* n in decimal, padded with zeros to w characters.
PadDigits(n, w) ==
  IF w = 0 THEN <<>> ELSE Append(PadDigits(n \div 10, w - 1), HexDigits[(n % 10) + 1])

\* The year of an ISO time stamp: four digits from 0 to 9999, otherwise a
\* sign and six digits.
YearDigits(year) ==
  IF 0 <= year /\ year <= 9999 THEN PadDigits(year, 4)
  ELSE IF year < 0 THEN <<"-">> \o PadDigits(0 - year, 6)
  ELSE <<"+">> \o PadDigits(year, 6)

\* Date.prototype.toISOString: YYYY-MM-DDTHH:mm:ss.sssZ
ToISOString(d) ==
  YearDigits(d.year) \o <<"-">> \o PadDigits(d.month, 2) \o <<"-">>
    \o PadDigits(d.day, 2) \o <<"T">> \o PadDigits(d.hours, 2) \o <<":">>
    \o PadDigits(d.minutes, 2) \o <<":">> \o PadDigits(d.seconds, 2) \o <<".">>
    \o PadDigits(d.ms, 3) \o <<"Z">>

RECURSIVE Split(_, _)
\* String.prototype.split with a one-character separator.
Split(s, c) ==
  LET i == IndexOf(s, c)
  IN IF i = 0 THEN <<s>>
     ELSE <<SubSeq(s, 1, i - 1)>> \o Split(SubSeq(s, i + 1, Len(s)), c)

RECURSIVE JoinChars(_)
\* The string made of the characters of s.
JoinChars(s) == IF s = <<>> THEN "" ELSE Head(s) \o JoinChars(Tail(s))

DateOf(d) == JoinChars(Split(ToISOString(d), "T")[1])

(***************************************************************************)
(* Seed data (placeholder data): the customers' ids and the invoices.      *)
(***************************************************************************)
customers ==
  << "3958dc9e-712f-4377-85e9-fec4b6a6442a",
     "3958dc9e-742f-4377-85e9-fec4b6a6442a",
     "3958dc9e-737f-4377-85e9-fec4b6a6442a",
     "50ca3e18-62cd-11ee-8c99-0242ac120002",
     "3958dc9e-787f-4377-85e9-fec4b6a6442a",
     "76d65c26-f784-44a2-ac19-586678f7c2f2",
     "d6e15727-9fe1-4961-8c5b-ea44a9bd81aa",
     "126eed9c-c90c-4ef6-a4a8-fcf7408d3c66",
     "CC27C14A-0ACF-4F4A-A6C9-D45682C144B9",
     "13D07535-C59E-4157-A011-F8D2EF4E0CBB" >>

\* customer is the index into customers, counted from 0 as in the source.
SeedInvoices ==
  << [customer |-> 0, amount |-> 15795, status |-> "pending", date |-> "2022-12-06"],
     [customer |-> 1, amount |-> 20348, status |-> "pending", date |-> "2022-11-14"],
     [customer |-> 4, amount |-> 3040, status |-> "paid", date |-> "2022-10-29"],
     [customer |-> 3, amount |-> 44800, status |-> "paid", date |-> "2023-09-10"],
     [customer |-> 5, amount |-> 34577, status |-> "pending", date |-> "2023-08-05"],
     [customer |-> 7, amount |-> 54246, status |-> "pending", date |-> "2023-07-16"],
     [customer |-> 6, amount |-> 666, status |-> "pending", date |-> "2023-06-27"],
     [customer |-> 3, amount |-> 32545, status |-> "paid", date |-> "2023-06-09"],
     [customer |-> 4, amount |-> 1250, status |-> "paid", date |-> "2023-06-17"],
     [customer |-> 5, amount |-> 8546, status |-> "paid", date |-> "2023-06-07"],
     [customer |-> 1, amount |-> 500, status |-> "paid", date |-> "2023-08-19"],
     [customer |-> 5, amount |-> 8945, status |-> "paid", date |-> "2023-06-03"],
     [customer |-> 2, amount |-> 8945, status |-> "paid", date |-> "2023-06-18"],
     [customer |-> 0, amount |-> 8945, status |-> "paid", date |-> "2023-10-04"],
     [customer |-> 2, amount |-> 1000, status |-> "paid", date |-> "2022-06-05"] >>

\* The invoices table after seeding: the store gives the rows the ids 1, 2, ...
SeedTable ==
  { [id |-> i,
     customer_id |-> customers[SeedInvoices[i].customer + 1],
     amount |-> FromInt(SeedInvoices[i].amount),
     status |-> SeedInvoices[i].status,
     date |-> SeedInvoices[i].date] : i \in 1..Len(SeedInvoices) }

(***************************************************************************)
(* The store's three statements, each atomic.                              *)
(***************************************************************************)
\* INSERT INTO invoices (customer_id, amount, status, date) VALUES (...)
SqlInsert(table, newId, customerId, amountInCents, status, date) ==
  table \cup { [id |-> newId, customer_id |-> customerId, amount |-> amountInCents,
                status |-> status, date |-> date] }

\* Mutant: the UPDATE without its WHERE clause.
SqlUpdateEveryRow(table, id, customerId, amountInCents, status) ==
  { [r EXCEPT !.customer_id = customerId, !.amount = amountInCents,
              !.status = status] : r \in table }

\* UPDATE invoices SET customer_id = .., amount = .., status = .. WHERE id = ..
SqlUpdate(table, id, customerId, amountInCents, status) ==
  { IF r.id = id
    THEN [r EXCEPT !.customer_id = customerId, !.amount = amountInCents,
                   !.status = status]
    ELSE r : r \in table }

\* DELETE FROM invoices WHERE id = ..
SqlDelete(table, id) == { r \in table : r.id # id }

(***************************************************************************)
(* Results of an invocation                                                *)
(***************************************************************************)
InvoicesPath == "/dashboard/invoices"

NoResult == [tag |-> "none"]
Returned(v) == [tag |-> "returned", value |-> v]
Threw(e) == [tag |-> "threw", error |-> e]
\* redirect() leaves the handler by raising the framework's redirect signal.
Redirected(path) == [tag |-> "redirected", path |-> path]

Undefined == [t |-> "undefined"]

MsgMissing(kind) ==
  IF kind = "create" THEN "MISSING FIELDS. FAILED TO CREATE INVOICE."
  ELSE "MISSING FIELDS. FAILED TO UPDATE INVOICE."

MsgDatabase(kind) ==
  CASE kind = "create" -> "DATABASE ERROR: FAILED TO CREATE INVOICE."
    [] kind = "update" -> "DATABASE ERROR: FAILED TO UPDATE INVOICE."
    [] kind = "delete" -> "DATABASE ERROR: FAILED TO DELETE INVOICE."

MsgDeleted == "DELETED INVOICE."
MsgInvalidCredentials == "INVALID CREDENTIALS."
MsgWentWrong == "SOMETHING WENT WRONG."

\* { errors, message } of a failed validation.
RejectedState(kind, cid, amt, st) ==
  [t |-> "object", errors |-> FieldErrors(cid, amt, st), message |-> MsgMissing(kind)]

\* { message } of a caught failure.
DatabaseErrorState(kind) == [t |-> "object", message |-> MsgDatabase(kind)]

DeletedState == [t |-> "object", message |-> MsgDeleted]

(***************************************************************************)
(* Inputs                                                                  *)
(***************************************************************************)
\* formData.get('customerId'): absent, empty, a seeded customer.
CustomerIdInputs == {Null, Str(""), Str(customers[1])}

\* formData.get('amount'): absent, "", "abc", "0", "-5", "0.125", "10", "250",
\* "0.29", a tab, "5" and a line feed, "1e3", "0x10", "Infinity".
AmountInputs ==
  {Null, Str(<<>>), Str(<<"a", "b", "c">>), Str(<<"0">>), Str(<<"-", "5">>),
   Str(<<"0", ".", "1", "2", "5">>), Str(<<"1", "0">>), Str(<<"2", "5", "0">>),
   Str(<<"0", ".", "2", "9">>), Str(<<"\t", "5", "\n">>), Str(<<"1", "e", "3">>),
   Str(<<"0", "x", "1", "0">>), Str(<<"I", "n", "f", "i", "n", "i", "t", "y">>)}

\* formData.get('status')
StatusInputs == {Null, Str("draft"), Str("pending"), Str("paid")}

\* Invoice ids passed to update and delete: a seeded row and an id no row
\* ever has.
IdInputs == {1, 0}

\* The inputs of the concurrent specification.
FewCustomerIds == {Str(customers[1])}
FewAmounts == {Str(<<"0">>), Str(<<"-", "5">>), Str(<<"2", "5", "0">>)}
FewStatuses == {Str("draft"), Str("pending"), Str("paid")}
FewIds == {1, Len(SeedInvoices) + 1}

PrevStates == {Undefined, Str(MsgInvalidCredentials)}

\* What signIn('credentials', formData) does: returns, or raises an AuthError
\* of some type, or raises an error that is no AuthError (the framework's
\* redirect signal among them).
SignInOutcomes ==
  { [raised |-> FALSE],
    [raised |-> TRUE, authError |-> TRUE, type |-> "CredentialsSignin"],
    [raised |-> TRUE, authError |-> TRUE, type |-> "CallbackRouteError"],
    [raised |-> TRUE, authError |-> TRUE, type |-> "AccessDenied"],
    [raised |-> TRUE, authError |-> FALSE, type |-> "NEXT_REDIRECT"],
    [raised |-> TRUE, authError |-> FALSE, type |-> "TypeError"] }

(***************************************************************************)
(* State                                                                   *)
(*   invoices     the invoices table                                       *)
(*   nextId       the id the store gives the next inserted row             *)
(*   clock        index into Instants of the current time                  *)
(*   revalidated  invalidations of the cache of /dashboard/invoices so far *)
(*   calls        invocations started so far                               *)
(*   proc         per slot: the invocation in it, its position (pc), its   *)
(*                arguments and locals, the steps it took, its outcome     *)
(***************************************************************************)
NoForm == [t |-> "none"]
NoData == [t |-> "none"]

IdleProc ==
  [pc |-> "idle", kind |-> "none", id |-> 0, form |-> NoForm, data |-> NoData,
   trace |-> <<>>, result |-> NoResult]

Init ==
  /\ invoices = SeedTable
  /\ nextId = Len(SeedInvoices) + 1
  /\ clock = 1
  /\ revalidated = 0
  /\ calls = 0
  /\ proc = [p \in Procs |-> IdleProc]

\* A slot takes a new invocation when none is running in it.
Free(p) == proc[p].pc = "idle" /\ calls < MaxCalls

Form(cid, amt, st) == [customerId |-> cid, amount |-> amt, status |-> st]

\* The handler up to its first await: validation, then the locals.
Validated(kind, id, cid, amt, st, date) ==
  IF ParseSuccess(cid, amt, st)
  THEN LET d == ParsedData(cid, amt, st)
       IN [pc |-> "persist", kind |-> kind, id |-> id, form |-> Form(cid, amt, st),
           data |-> [customerId |-> d.customerId,
                     amountInCents |-> AmountInCents(d.amount),
                     status |-> d.status, date |-> date],
           trace |-> <<"validate_ok">>, result |-> NoResult]
  ELSE [pc |-> "done", kind |-> kind, id |-> id, form |-> Form(cid, amt, st),
        data |-> NoData, trace |-> <<"validate_failed">>,
        result |-> Returned(RejectedState(kind, cid, amt, st))]

\* createInvoice(prevState, formData) up to the INSERT.
CreateInvoiceCall(p, cid, amt, st) ==
  /\ Free(p)
  /\ proc' = [proc EXCEPT ![p] =
                Validated("create", 0, cid, amt, st, DateOf(Instants[clock]))]
  /\ calls' = calls + 1
  /\ UNCHANGED <<invoices, nextId, clock, revalidated>>

\* updateInvoice(id, prevState, formData) up to the UPDATE.
UpdateInvoiceCall(p, id, cid, amt, st) ==
  /\ Free(p)
  /\ proc' = [proc EXCEPT ![p] = Validated("update", id, cid, amt, st, "")]
  /\ calls' = calls + 1
  /\ UNCHANGED <<invoices, nextId, clock, revalidated>>

\* deleteInvoice(id) up to the DELETE.
DeleteInvoiceCall(p, id) ==
  /\ Free(p)
  /\ proc' = [proc EXCEPT ![p] =
                [pc |-> "persist", kind |-> "delete", id |-> id, form |-> NoForm,
                 data |-> NoData, trace |-> <<>>, result |-> NoResult]]
  /\ calls' = calls + 1
  /\ UNCHANGED <<invoices, nextId, clock, revalidated>>

\* The statement of the invocation in slot p, applied to the table.
Statement(p, table) ==
  LET q == proc[p]
  IN CASE q.kind = "create" ->
            SqlInsert(table, nextId, q.data.customerId, q.data.amountInCents,
                      q.data.status, q.data.date)
       [] q.kind = "update" ->
            SqlUpdate(table, q.id, q.data.customerId, q.data.amountInCents,
                      q.data.status)
       [] q.kind = "delete" -> SqlDelete(table, q.id)

\* Mutant: redirect() called before revalidatePath().
AfterStatementRedirectFirst(q) ==
  [q EXCEPT !.pc = "redirect", !.trace = Append(@, "statement_ok")]

\* Where the handler goes when its statement has succeeded.
AfterStatement(q) ==
  [q EXCEPT !.pc = "revalidate", !.trace = Append(@, "statement_ok")]

\* Mutant: the catch block raises the store's error again.
CatchStatementRethrows(q) ==
  [q EXCEPT !.pc = "done", !.trace = Append(@, "statement_failed"),
            !.result = Threw("store")]

\* Where the handler goes when its statement has raised: the catch block.
CatchStatement(q) ==
  [q EXCEPT !.pc = "done", !.trace = Append(@, "statement_failed"),
            !.result = Returned(DatabaseErrorState(q.kind))]

\* await sql`...`: the store accepts the statement.
StoreAccepts(p) ==
  /\ proc[p].pc = "persist"
  /\ invoices' = Statement(p, invoices)
  /\ nextId' = IF proc[p].kind = "create" THEN nextId + 1 ELSE nextId
  /\ proc' = [proc EXCEPT ![p] = AfterStatement(@)]
  /\ UNCHANGED <<clock, revalidated, calls>>

\* await sql`...`: the store raises.
StoreRaises(p) ==
  /\ proc[p].pc = "persist"
  /\ proc' = [proc EXCEPT ![p] = CatchStatement(@)]
  /\ UNCHANGED <<invoices, nextId, clock, revalidated, calls>>

\* After revalidatePath returned: create and update go on to redirect,
\* delete returns its message.
AfterRevalidate(q) ==
  IF q.kind = "delete"
  THEN [q EXCEPT !.pc = "done", !.trace = Append(@, "revalidated"),
                 !.result = Returned(DeletedState)]
  ELSE [q EXCEPT !.pc = "redirect", !.trace = Append(@, "revalidated")]

\* After revalidatePath raised: in deleteInvoice the call is inside the try
\* block, so the catch block answers; in createInvoice and updateInvoice it is
\* outside, so the error leaves the handler.
CatchRevalidate(q) ==
  IF q.kind = "delete"
  THEN [q EXCEPT !.pc = "done", !.trace = Append(@, "revalidate_failed"),
                 !.result = Returned(DatabaseErrorState(q.kind))]
  ELSE [q EXCEPT !.pc = "done", !.trace = Append(@, "revalidate_failed"),
                 !.result = Threw("revalidatePath")]

\* revalidatePath('/dashboard/invoices') returns.
Revalidate(p) ==
  /\ proc[p].pc = "revalidate"
  /\ revalidated' = revalidated + 1
  /\ proc' = [proc EXCEPT ![p] = AfterRevalidate(@)]
  /\ UNCHANGED <<invoices, nextId, clock, calls>>

\* revalidatePath('/dashboard/invoices') raises.
RevalidateRaises(p) ==
  /\ proc[p].pc = "revalidate"
  /\ proc' = [proc EXCEPT ![p] = CatchRevalidate(@)]
  /\ UNCHANGED <<invoices, nextId, clock, revalidated, calls>>

\* redirect('/dashboard/invoices')
Redirect(p) ==
  /\ proc[p].pc = "redirect"
  /\ proc' = [proc EXCEPT ![p] = [@ EXCEPT !.pc = "done",
                                          !.trace = Append(@, "redirected"),
                                          !.result = Redirected(InvoicesPath)]]
  /\ UNCHANGED <<invoices, nextId, clock, revalidated, calls>>

\* Mutant: the catch block without its final throw.
AuthResultSwallows(prevState, outcome) ==
  IF ~outcome.raised THEN Returned(Undefined)
  ELSE IF outcome.authError
       THEN IF outcome.type = "CredentialsSignin"
            THEN Returned(Str(MsgInvalidCredentials))
            ELSE Returned(Str(MsgWentWrong))
       ELSE Returned(Undefined)

\* The catch block of authenticate, and its fall-through.
AuthResult(prevState, outcome) ==
  IF ~outcome.raised THEN Returned(Undefined)
  ELSE IF outcome.authError
       THEN IF outcome.type = "CredentialsSignin"
            THEN Returned(Str(MsgInvalidCredentials))
            ELSE Returned(Str(MsgWentWrong))
       ELSE Threw(outcome)

\* authenticate(prevState, formData) up to the await of signIn.
AuthenticateCall(p, prevState) ==
  /\ Free(p)
  /\ proc' = [proc EXCEPT ![p] =
                [pc |-> "signin", kind |-> "authenticate", id |-> 0,
                 form |-> NoForm, data |-> [prevState |-> prevState],
                 trace |-> <<>>, result |-> NoResult]]
  /\ calls' = calls + 1
  /\ UNCHANGED <<invoices, nextId, clock, revalidated>>

\* signIn('credentials', formData) completes with the outcome.
SignIn(p, outcome) ==
  /\ proc[p].pc = "signin"
  /\ proc' = [proc EXCEPT ![p] =
                [@ EXCEPT !.pc = "done",
                          !.data = [prevState |-> @.prevState, outcome |-> outcome],
                          !.trace = Append(@, "signIn"),
                          !.result = AuthResult(proc[p].data.prevState, outcome)]]
  /\ UNCHANGED <<invoices, nextId, clock, revalidated, calls>>

\* The outcome has reached the caller: the slot is free again.
Return(p) ==
  /\ proc[p].pc = "done"
  /\ proc' = [proc EXCEPT ![p] = IdleProc]
  /\ UNCHANGED <<invoices, nextId, clock, revalidated, calls>>

\* Time passes.
Tick ==
  /\ clock < Len(Instants)
  /\ clock' = clock + 1
  /\ UNCHANGED <<invoices, nextId, revalidated, calls, proc>>

\* The steps every invocation takes after its call, whatever its inputs.
Continue(p) ==
  \/ StoreAccepts(p)
  \/ StoreRaises(p)
  \/ Revalidate(p)
  \/ RevalidateRaises(p)
  \/ Redirect(p)
  \/ \E o \in SignInOutcomes : SignIn(p, o)
  \/ Return(p)

\* Concurrent invocations in every slot, with few inputs.
Next ==
  \/ Tick
  \/ \E p \in Procs :
       \/ \E c \in FewCustomerIds, a \in FewAmounts, s \in FewStatuses :
            CreateInvoiceCall(p, c, a, s)
       \/ \E i \in FewIds, c \in FewCustomerIds, a \in FewAmounts, s \in FewStatuses :
            UpdateInvoiceCall(p, i, c, a, s)
       \/ \E i \in FewIds : DeleteInvoiceCall(p, i)
       \/ \E v \in PrevStates : AuthenticateCall(p, v)
       \/ Continue(p)

Spec == Init /\ [][Next]_vars

\* One invocation at a time, with every input.
NextForms ==
  \/ Tick
  \/ /\ calls < FormCalls
     /\ \/ \E c \in CustomerIdInputs, a \in AmountInputs, s \in StatusInputs :
             CreateInvoiceCall("r1", c, a, s)
        \/ \E i \in IdInputs, c \in CustomerIdInputs, a \in AmountInputs,
                s \in StatusInputs :
             UpdateInvoiceCall("r1", i, c, a, s)
        \/ \E i \in IdInputs : DeleteInvoiceCall("r1", i)
        \/ \E v \in PrevStates : AuthenticateCall("r1", v)
  \/ Continue("r1")

SpecForms == Init /\ [][NextForms]_vars

(***************************************************************************)
(* Properties                                                              *)
(***************************************************************************)
\* The events of q's trace.
Events(q) == {q.trace[i] : i \in 1..Len(q.trace)}

\* Store statements the invocation has issued.
Statements(q) ==
  Cardinality({i \in 1..Len(q.trace) :
                 q.trace[i] \in {"statement_ok", "statement_failed"}})

IsForm(q) == q.kind \in {"create", "update"}

\* The form fails the schema: customerId is no string, or amount is not a
\* number greater than 0, or status is neither option.
FailsSchema(f) ==
  \/ f.customerId.t # "string"
  \/ ~Positive(ToNumber(f.amount))
  \/ f.status \notin {Str("pending"), Str("paid")}

\* The fields of the form that fail the schema.
FailingFields(f) ==
  {g \in {"customerId", "amount", "status"} :
     \/ g = "customerId" /\ f.customerId.t # "string"
     \/ g = "amount" /\ ~Positive(ToNumber(f.amount))
     \/ g = "status" /\ f.status \notin {Str("pending"), Str("paid")}}

\* q ended by returning the errors of its form and the missing-fields message.
RejectedWithErrors(q) ==
  /\ q.pc = "done"
  /\ q.result.tag = "returned"
  /\ DOMAIN q.result.value = {"t", "errors", "message"}
  /\ DOMAIN q.result.value.errors = FailingFields(q.form)
  /\ \A g \in DOMAIN q.result.value.errors : Len(q.result.value.errors[g]) >= 1
  /\ q.result.value.message \in
       {"MISSING FIELDS. FAILED TO CREATE INVOICE.",
        "MISSING FIELDS. FAILED TO UPDATE INVOICE."}
  /\ q.trace = <<"validate_failed">>

\* C1: when the schema validation of the form of a createInvoice or
\* updateInvoice fails, the handler returns the field-to-messages mapping and
\* the missing-fields message, issues no store statement, invalidates no
\* cache and does not redirect; and the step in which it does so leaves the
\* invoices table, the store's id counter and the cache as they were.
C1_RejectedUntouched ==
  /\ [](\A p \in Procs :
          (IsForm(proc[p]) /\ FailsSchema(proc[p].form)) => RejectedWithErrors(proc[p]))
  /\ [][\A p \in Procs :
          (proc[p].pc = "idle" /\ IsForm(proc'[p]) /\ FailsSchema(proc'[p].form))
            => (invoices' = invoices /\ nextId' = nextId
                  /\ revalidated' = revalidated)]_vars

\* A createInvoice was rejected for its status alone, or an updateInvoice
\* for its amount alone, and the table is the seeded one.
C1_Witness ==
  \E p \in Procs :
    /\ IsForm(proc[p])
    /\ proc[p].pc = "done"
    /\ proc[p].result.tag = "returned"
    /\ "errors" \in DOMAIN proc[p].result.value
    /\ \/ proc[p].kind = "create"
          /\ DOMAIN proc[p].result.value.errors = {"status"}
          /\ proc[p].form.status = Str("draft")
       \/ proc[p].kind = "update"
          /\ DOMAIN proc[p].result.value.errors = {"amount"}
    /\ invoices = SeedTable

\* C2: when customerId is the empty string or absent from the form,
\* createInvoice and updateInvoice return an error entry for customerId and
\* issue no store statement, whatever amount and status are.
C2_EmptyCustomerRejected ==
  \A p \in Procs :
    (IsForm(proc[p]) /\ proc[p].form.customerId \in {Null, Str("")})
      => /\ proc[p].pc = "done"
         /\ proc[p].result.tag = "returned"
         /\ "errors" \in DOMAIN proc[p].result.value
         /\ "customerId" \in DOMAIN proc[p].result.value.errors
         /\ Statements(proc[p]) = 0

\* The calendar date of an instant, YYYY-MM-DD (years of four digits).
Two(n) == IF n < 10 THEN "0" \o ToString(n) ELSE ToString(n)
CalendarDate(d) == ToString(d.year) \o "-" \o Two(d.month) \o "-" \o Two(d.day)

\* The ids of the rows of a table.
Ids(table) == {r.id : r \in table}

\* C3: a createInvoice with a valid form takes as date the calendar date of
\* the moment it runs, and when the store accepts its INSERT exactly one row
\* is added, under an id no row had, with customer_id, amount * 100, status
\* of the form and that date, every earlier row staying as it was; amount
\* "250" gives the amount 25000.
C3_CreateAddsOneRow ==
  [][\A p \in Procs :
       /\ (proc[p].pc = "idle" /\ proc'[p].kind = "create" /\ proc'[p].pc = "persist")
            => proc'[p].data.date = CalendarDate(Instants[clock])
       /\ (proc[p].kind = "create" /\ proc[p].pc = "persist"
             /\ proc'[p].pc = "revalidate")
            => LET f == proc[p].form
                   added == invoices' \ invoices
               IN /\ invoices \subseteq invoices'
                  /\ Cardinality(added) = 1
                  /\ \A r \in added :
                       /\ r.id \notin Ids(invoices)
                       /\ r.customer_id = f.customerId.v
                       /\ r.amount = Times(ToNumber(f.amount), 100)
                       /\ r.status = f.status.v
                       /\ r.date = proc[p].data.date
                       /\ f.amount = Str(<<"2", "5", "0">>) => r.amount = FromInt(25000)
    ]_vars

\* The row of the example is in the table, created after midnight.
C3_Witness ==
  \E r \in invoices :
    /\ r.id = Len(SeedInvoices) + 1
    /\ r.customer_id = "3958dc9e-712f-4377-85e9-fec4b6a6442a"
    /\ r.amount = FromInt(25000)
    /\ r.status = "paid"
    /\ r.date = "2026-10-31"
    /\ Cardinality(invoices) = Len(SeedInvoices) + 1

\* C4: when the store accepts the UPDATE of updateInvoice(X, ...), the row
\* with id X takes customer_id, amount * 100 and status of the form and keeps
\* its id and date; every other row is as before; no row is added or removed.
C4_UpdateSetsThreeColumns ==
  [][\A p \in Procs :
       (proc[p].kind = "update" /\ proc[p].pc = "persist"
          /\ proc'[p].pc = "revalidate")
         => LET f == proc[p].form
                X == proc[p].id
            IN /\ Ids(invoices') = Ids(invoices)
               /\ Cardinality(invoices') = Cardinality(invoices)
               /\ \A r \in invoices : r.id # X => r \in invoices'
               /\ \A r \in invoices :
                    r.id = X =>
                      \E u \in invoices' :
                        /\ u.id = X
                        /\ u.date = r.date
                        /\ u.customer_id = f.customerId.v
                        /\ u.amount = Times(ToNumber(f.amount), 100)
                        /\ u.status = f.status.v
    ]_vars

\* An updateInvoice of the first seeded invoice went through: the row has
\* the form's values and its seeded date.
C4_Witness ==
  \E p \in Procs :
    /\ proc[p].kind = "update"
    /\ proc[p].id = 1
    /\ "statement_ok" \in Events(proc[p])
    /\ \E r \in invoices :
         /\ r.id = 1
         /\ r.date = "2022-12-06"
         /\ r.amount = FromInt(25000)
         /\ r.status = "paid"
    /\ Cardinality(invoices) = Len(SeedInvoices)

\* C5: the amount of every row, and the amount every validated handler is
\* about to store, is an integer count of minor units.
C5_AmountsAreIntegers ==
  /\ \A r \in invoices : IsInteger(r.amount)
  /\ \A p \in Procs :
       (IsForm(proc[p]) /\ proc[p].pc = "persist")
         => IsInteger(proc[p].data.amountInCents)

IsPrefix(s, t) == Len(s) <= Len(t) /\ SubSeq(t, 1, Len(s)) = s

\* The steps of a createInvoice or updateInvoice come in the order validation,
\* statement, cache invalidation, redirect.
OrderedSteps(q) ==
  \/ q.trace = <<"validate_failed">>
  \/ IsPrefix(q.trace, <<"validate_ok", "statement_failed">>)
  \/ IsPrefix(q.trace, <<"validate_ok", "statement_ok", "revalidated", "redirected">>)
  \/ q.trace = <<"validate_ok", "statement_ok", "revalidate_failed">>

\* C6 as claimed: the steps are ordered, and once the statement has succeeded
\* the finished handler has invalidated the cache, then redirected, and has
\* returned no value.
C6_StatementThenRedirect ==
  \A p \in Procs :
    IsForm(proc[p]) =>
      /\ OrderedSteps(proc[p])
      /\ (proc[p].pc = "done" /\ "statement_ok" \in Events(proc[p]))
           => /\ proc[p].trace =
                   <<"validate_ok", "statement_ok", "revalidated", "redirected">>
              /\ proc[p].result = Redirected("/dashboard/invoices")

\* C6, amended: the steps are ordered; a finished handler whose cache
\* invalidation returned has redirected to /dashboard/invoices and returned
\* no value; one whose cache invalidation raised has let that error out and
\* has not redirected.
C6_OrderedSteps ==
  \A p \in Procs :
    IsForm(proc[p]) =>
      /\ OrderedSteps(proc[p])
      /\ proc[p].pc = "persist" => proc[p].trace = <<"validate_ok">>
      /\ proc[p].pc = "revalidate" => proc[p].trace = <<"validate_ok", "statement_ok">>
      /\ proc[p].pc = "redirect"
           => proc[p].trace = <<"validate_ok", "statement_ok", "revalidated">>
      /\ (proc[p].pc = "done" /\ "revalidated" \in Events(proc[p]))
           => /\ proc[p].trace =
                   <<"validate_ok", "statement_ok", "revalidated", "redirected">>
              /\ proc[p].result = Redirected("/dashboard/invoices")
      /\ (proc[p].pc = "done" /\ "revalidate_failed" \in Events(proc[p]))
           => /\ proc[p].result.tag = "threw"
              /\ "redirected" \notin Events(proc[p])

\* An updateInvoice ran to its redirect.
C6_Witness ==
  \E p \in Procs :
    /\ proc[p].kind = "update"
    /\ proc[p].pc = "done"
    /\ proc[p].result.tag = "redirected"
    /\ revalidated >= 1

IsStore(q) == q.kind \in {"create", "update", "delete"}

\* The database-error message of each handler.
DatabaseMessages ==
  [create |-> "DATABASE ERROR: FAILED TO CREATE INVOICE.",
   update |-> "DATABASE ERROR: FAILED TO UPDATE INVOICE.",
   delete |-> "DATABASE ERROR: FAILED TO DELETE INVOICE."]

\* C7: createInvoice, updateInvoice and deleteInvoice issue their statement
\* at most once, and exactly once when they get past validation; when the
\* store raises, the handler ends there, returning an object that holds only
\* its database-error message, without invalidating the cache or redirecting;
\* deleteInvoice always ends by returning the deleted message or the
\* database-error message, whether or not a row has the id.
C7_StoreFailureCaught ==
  \A p \in Procs :
    IsStore(proc[p]) =>
      /\ Statements(proc[p]) <= 1
      /\ (proc[p].pc \in {"revalidate", "redirect"}
            \/ (proc[p].pc = "done" /\ "validate_failed" \notin Events(proc[p])))
           => Statements(proc[p]) = 1
      /\ "statement_failed" \in Events(proc[p])
           => /\ proc[p].pc = "done"
              /\ proc[p].result.tag = "returned"
              /\ DOMAIN proc[p].result.value = {"t", "message"}
              /\ proc[p].result.value.message = DatabaseMessages[proc[p].kind]
              /\ proc[p].trace[Len(proc[p].trace)] = "statement_failed"
              /\ Events(proc[p]) \cap {"revalidated", "redirected"} = {}
      /\ (proc[p].kind = "delete" /\ proc[p].pc = "done")
           => /\ proc[p].result.tag = "returned"
              /\ DOMAIN proc[p].result.value = {"t", "message"}
              /\ proc[p].result.value.message \in
                   {"DELETED INVOICE.", DatabaseMessages["delete"]}

\* Two deleteInvoice calls for the same id have ended, no row has the id, one
\* call reported the deletion and the other a store failure.
C7_Witness ==
  \E p \in Procs, q \in Procs :
    /\ p # q
    /\ proc[p].kind = "delete" /\ proc[q].kind = "delete"
    /\ proc[p].id = proc[q].id
    /\ proc[p].id \notin Ids(invoices)
    /\ proc[p].pc = "done" /\ proc[q].pc = "done"
    /\ proc[p].result.value.message = "DELETED INVOICE."
    /\ proc[q].trace = <<"statement_failed">>
    /\ proc[q].result.value.message = DatabaseMessages["delete"]

\* What a finished authenticate gives for the outcome of signIn, with the two
\* messages given.
AuthClassified(q, invalid, wrong) ==
  LET o == q.data.outcome
  IN /\ (o.raised /\ o.authError /\ o.type = "CredentialsSignin")
          => q.result = Returned(Str(invalid))
     /\ (o.raised /\ o.authError /\ o.type # "CredentialsSignin")
          => q.result = Returned(Str(wrong))
     /\ (o.raised /\ ~o.authError) => q.result = Threw(o)
     /\ ~o.raised => q.result = Returned(Undefined)

\* C8 as claimed: authenticate gives "invalid credentials." for a
\* CredentialsSignin authentication error, "something went wrong." for any
\* other authentication error, lets any other error out unchanged and returns
\* no value when signIn returns, whatever prevState is.
C8_AuthMessagesAsClaimed ==
  \A p \in Procs :
    (proc[p].kind = "authenticate" /\ proc[p].pc = "done")
      => AuthClassified(proc[p], "invalid credentials.", "something went wrong.")

\* C8, amended: the same classification, with the messages the handler
\* returns: "INVALID CREDENTIALS." and "SOMETHING WENT WRONG.".
C8_AuthClassification ==
  \A p \in Procs :
    (proc[p].kind = "authenticate" /\ proc[p].pc = "done")
      => AuthClassified(proc[p], "INVALID CREDENTIALS.", "SOMETHING WENT WRONG.")

\* An authenticate called with the message of an earlier failure as prevState
\* ended on a CredentialsSignin error.
C8_Witness ==
  \E p \in Procs :
    /\ proc[p].kind = "authenticate"
    /\ proc[p].pc = "done"
    /\ proc[p].data.prevState # Undefined
    /\ proc[p].data.outcome.raised
    /\ proc[p].data.outcome.type = "CredentialsSignin"
    /\ proc[p].result.tag = "returned"

\* C9: every row of the invoices table has an amount greater than 0 and the
\* status pending or paid, and so has every row a handler is about to write.
C9_RowsPositiveAndEnumerated ==
  /\ \A r \in invoices : Positive(r.amount) /\ r.status \in {"pending", "paid"}
  /\ \A p \in Procs :
       (IsForm(proc[p]) /\ proc[p].pc = "persist")
         => /\ Positive(proc[p].data.amountInCents)
            /\ proc[p].data.status \in {"pending", "paid"}

\* A created row is in the table and a form with amount "0" and status paid
\* has been rejected.
C9_Witness ==
  /\ \E r \in invoices : r.id > Len(SeedInvoices)
  /\ \E p \in Procs :
       /\ IsForm(proc[p])
       /\ proc[p].pc = "done"
       /\ proc[p].form.amount = Str(<<"0">>)
       /\ proc[p].form.status = Str("paid")
       /\ proc[p].result.tag = "returned"

\* C10: when deleteInvoice returns its database-error message, its DELETE
\* failed: the statement did not succeed and the row with the id, if there was
\* one when the statement was issued, is still there.
C10_DeleteErrorMeansNotDeleted ==
  \A p \in Procs :
    (/\ proc[p].kind = "delete"
     /\ proc[p].pc = "done"
     /\ proc[p].result.tag = "returned"
     /\ proc[p].result.value.message = "DATABASE ERROR: FAILED TO DELETE INVOICE.")
      => "statement_ok" \notin Events(proc[p])

====
